---------------------------- MODULE Spec2Model ----------------------------
(***************************************************************************)
(* Model of scran::center_size_factors                                     *)
(* (include/scran/center_size_factors.hpp).                                *)
(*                                                                         *)
(* A size factor (SizeFactor_, a floating-point type) is modelled as an    *)
(* exact rational extended with NaN and the two infinities; rounding and   *)
(* the sign of zero are not modelled.  The caller owns one size-factor     *)
(* array, one block-label array and one Diagnostics record; every call     *)
(* works on them in place, as the code does through its pointers.          *)
(***************************************************************************)
EXTENDS Integers, Sequences, FiniteSets

\* ------------------------------------------------------------------ bounds
MaxNum == 2
MaxBlock == 2
MaxCalls == 2

\* ------------------------------------------------- floating-point values
Abs(x) == IF x < 0 THEN -x ELSE x

RECURSIVE GCD(_, _)
GCD(a, b) == IF b = 0 THEN a ELSE GCD(b, a % b)

\* a finite value n/d in lowest terms, d > 0
Fin(n, d) ==
    LET s == IF d < 0 THEN -1 ELSE 1
        g == GCD(Abs(n), Abs(d))
    IN  [k |-> "fin", n |-> (s * n) \div g, d |-> (s * d) \div g]

NaN == [k |-> "nan", n |-> 0, d |-> 1]
Inf(s) == [k |-> "inf", n |-> s, d |-> 1]
Zero == Fin(0, 1)

Sign(a) == IF a.n < 0 THEN -1 ELSE IF a.n > 0 THEN 1 ELSE 0

\* operator + on SizeFactor_
FAdd(a, b) ==
    IF a.k = "nan" \/ b.k = "nan" THEN NaN
    ELSE IF a.k = "inf" /\ b.k = "inf" THEN (IF a.n = b.n THEN a ELSE NaN)
    ELSE IF a.k = "inf" THEN a
    ELSE IF b.k = "inf" THEN b
    ELSE Fin(a.n * b.d + b.n * a.d, a.d * b.d)

\* operator / on SizeFactor_ (IEEE 754 results for the special operands)
FDiv(a, b) ==
    IF a.k = "nan" \/ b.k = "nan" THEN NaN
    ELSE IF a.k = "inf" /\ b.k = "inf" THEN NaN
    ELSE IF a.k = "inf" THEN Inf(IF Sign(b) < 0 THEN -(a.n) ELSE a.n)
    ELSE IF b.k = "inf" THEN Zero
    ELSE IF b.n = 0 THEN (IF a.n = 0 THEN NaN ELSE Inf(Sign(a)))
    ELSE Fin(a.n * b.d, a.d * b.n)

\* operator < on SizeFactor_: false whenever an operand is NaN
FLess(a, b) ==
    IF a.k = "nan" \/ b.k = "nan" THEN FALSE
    ELSE IF a.k = "inf" THEN a.n < 0 /\ ~(b.k = "inf" /\ b.n < 0)
    ELSE IF b.k = "inf" THEN b.n > 0
    ELSE a.n * b.d < b.n * a.d

\* contextual conversion to bool, if (x): x != 0, so NaN and infinities are true
FTruthy(a) == ~(a.k = "fin" /\ a.n = 0)

\* conversion of a size_t count to SizeFactor_ in mean/denom
FromCount(c) == Fin(c, 1)

\* ------------------------------------------------------------ collaborators
NoDiagnostics ==
    [has_negative |-> FALSE, has_zero |-> FALSE, has_nan |-> FALSE, has_infinite |-> FALSE]

\* sanitize_size_factors::internal::is_invalid(val, diag): classifies val and
\* marks its kind in diag
is_invalid(val, diag) ==
    IF FLess(val, Zero) THEN [invalid |-> TRUE, diag |-> [diag EXCEPT !.has_negative = TRUE]]
    ELSE IF val = Zero THEN [invalid |-> TRUE, diag |-> [diag EXCEPT !.has_zero = TRUE]]
    ELSE IF val.k = "nan" THEN [invalid |-> TRUE, diag |-> [diag EXCEPT !.has_nan = TRUE]]
    ELSE IF val.k = "inf" THEN [invalid |-> TRUE, diag |-> [diag EXCEPT !.has_infinite = TRUE]]
    ELSE [invalid |-> FALSE, diag |-> diag]

\* tatami_stats::total_groups(block, num): largest label + 1, 0 for no cells
total_groups(block, num) ==
    IF num = 0 THEN 0
    ELSE (CHOOSE m \in {block[i] : i \in 1..num} : \A i \in 1..num : block[i] <= m) + 1

\* A Diagnostics* argument: null, or pointing at the record `at`.
Ptr(null, at) == [null |-> null, at |-> at]

\* A division executed at source line `line` with divisor `by`.
Division(line, by) == [line |-> line, by |-> by]


\* ----------------------------------------------------------------- options
BlockModes == {"PER_BLOCK", "LOWEST"}
Options == [block_mode : BlockModes, ignore_invalid : BOOLEAN]
\* block_mode is read by compute_blocked alone; other callers leave its default
UnblockedOptions == {o \in Options : o.block_mode = "LOWEST"}

\* ------------------------------------------------------------ compute_mean
\* faulty variant: ++denom outside the validity test, so invalid values count
RECURSIVE mean_loop_counting_all(_, _, _, _, _, _)
mean_loop_counting_all(num, size_factors, i, mean, denom, diag) ==
    IF i > num THEN [mean |-> mean, denom |-> denom, diag |-> diag]
    ELSE LET val == size_factors[i]
             r == is_invalid(val, diag)
         IN  IF ~r.invalid
             THEN mean_loop_counting_all(num, size_factors, i + 1, FAdd(mean, val), denom + 1, r.diag)
             ELSE mean_loop_counting_all(num, size_factors, i + 1, mean, denom + 1, r.diag)

\* the filtering loop: for (i = 0; i < num; ++i) { if (!is_invalid(val, diag)) ... }
RECURSIVE mean_loop(_, _, _, _, _, _)
mean_loop(num, size_factors, i, mean, denom, diag) ==
    IF i > num THEN [mean |-> mean, denom |-> denom, diag |-> diag]
    ELSE LET val == size_factors[i]
             r == is_invalid(val, diag)
         IN  IF ~r.invalid
             THEN mean_loop(num, size_factors, i + 1, FAdd(mean, val), denom + 1, r.diag)
             ELSE mean_loop(num, size_factors, i + 1, mean, denom, r.diag)

\* faulty variant: the range ends one element early
RECURSIVE accumulate_short(_, _, _, _)
accumulate_short(size_factors, i, last, init) ==
    IF i >= last THEN init
    ELSE accumulate_short(size_factors, i + 1, last, FAdd(init, size_factors[i]))

\* std::accumulate(first, last, init)
RECURSIVE accumulate(_, _, _, _)
accumulate(size_factors, i, last, init) ==
    IF i > last THEN init
    ELSE accumulate(size_factors, i + 1, last, FAdd(init, size_factors[i]))

\* faulty variant: mean/denom without the if (denom) guard
compute_mean_unguarded(num, size_factors, diagnostics, options) ==
    LET tmpdiag == NoDiagnostics
        filtered == mean_loop(num, size_factors, 1, Zero, 0,
                              IF diagnostics.null THEN tmpdiag ELSE diagnostics.at)
        mean == IF options.ignore_invalid THEN filtered.mean
                ELSE accumulate(size_factors, 1, num, Zero)
        denom == IF options.ignore_invalid THEN filtered.denom ELSE num
    IN  [ret |-> FDiv(mean, FromCount(denom)),
         diag |-> IF options.ignore_invalid /\ ~diagnostics.null
                  THEN filtered.diag ELSE diagnostics.at,
         divisions |-> {Division(107, FromCount(denom))}]

\* Returns the value returned, the caller's record afterwards and the
\* divisions executed.
compute_mean(num, size_factors, diagnostics, options) ==
    LET tmpdiag == NoDiagnostics
        filtered == mean_loop(num, size_factors, 1, Zero, 0,
                              IF diagnostics.null THEN tmpdiag ELSE diagnostics.at)
        mean == IF options.ignore_invalid THEN filtered.mean
                ELSE accumulate(size_factors, 1, num, Zero)
        denom == IF options.ignore_invalid THEN filtered.denom ELSE num
    IN  [ret |-> IF denom # 0 THEN FDiv(mean, FromCount(denom)) ELSE Zero,
         diag |-> IF options.ignore_invalid /\ ~diagnostics.null
                  THEN filtered.diag ELSE diagnostics.at,
         divisions |-> IF denom # 0 THEN {Division(107, FromCount(denom))} ELSE {}]

\* faulty variant: if (mean > 0) in place of if (mean)
compute_positive_guard(num, size_factors, diagnostics, options) ==
    LET m == compute_mean(num, size_factors, diagnostics, options)
        mean == m.ret
    IN  [ret |-> mean,
         size_factors |-> IF FLess(Zero, mean)
                          THEN [i \in 1..num |-> FDiv(size_factors[i], mean)]
                          ELSE size_factors,
         diag |-> m.diag,
         divisions |-> m.divisions \cup
                       (IF FLess(Zero, mean) /\ num > 0 THEN {Division(131, mean)} ELSE {})]

\* ----------------------------------------------------------------- compute
compute(num, size_factors, diagnostics, options) ==
    LET m == compute_mean(num, size_factors, diagnostics, options)
        mean == m.ret
    IN  [ret |-> mean,
         size_factors |-> IF FTruthy(mean)
                          THEN [i \in 1..num |-> FDiv(size_factors[i], mean)]
                          ELSE size_factors,
         diag |-> m.diag,
         divisions |-> m.divisions \cup
                       (IF FTruthy(mean) /\ num > 0 THEN {Division(131, mean)} ELSE {})]

\* ---------------------------------------------------- compute_blocked_mean
\* faulty variant: ++group_num[b] outside the validity test
RECURSIVE blocked_loop_counting_all(_, _, _, _, _, _, _, _)
blocked_loop_counting_all(num, size_factors, block, i, group_mean, group_num, diag, ignore_invalid) ==
    IF i > num THEN [group_mean |-> group_mean, group_num |-> group_num, diag |-> diag]
    ELSE LET val == size_factors[i]
             r == IF ignore_invalid THEN is_invalid(val, diag)
                  ELSE [invalid |-> FALSE, diag |-> diag]
             b == block[i] + 1
         IN  IF ~r.invalid
             THEN blocked_loop_counting_all(num, size_factors, block, i + 1,
                               [group_mean EXCEPT ![b] = FAdd(@, val)],
                               [group_num EXCEPT ![b] = @ + 1], r.diag, ignore_invalid)
             ELSE blocked_loop_counting_all(num, size_factors, block, i + 1,
                               group_mean, [group_num EXCEPT ![b] = @ + 1], r.diag,
                               ignore_invalid)

\* Block b is held at index b + 1 of group_mean and group_num.
RECURSIVE blocked_loop(_, _, _, _, _, _, _, _)
blocked_loop(num, size_factors, block, i, group_mean, group_num, diag, ignore_invalid) ==
    IF i > num THEN [group_mean |-> group_mean, group_num |-> group_num, diag |-> diag]
    ELSE LET val == size_factors[i]
             r == IF ignore_invalid THEN is_invalid(val, diag)
                  ELSE [invalid |-> FALSE, diag |-> diag]
             b == block[i] + 1
         IN  IF ~r.invalid
             THEN blocked_loop(num, size_factors, block, i + 1,
                               [group_mean EXCEPT ![b] = FAdd(@, val)],
                               [group_num EXCEPT ![b] = @ + 1], r.diag, ignore_invalid)
             ELSE blocked_loop(num, size_factors, block, i + 1,
                               group_mean, group_num, r.diag, ignore_invalid)

\* faulty variant: the pass always starts from a fresh record and copies it
\* over the caller's, losing the flags set before
compute_blocked_mean_fresh_diag(num, size_factors, block, diagnostics, options) ==
    LET ngroups == total_groups(block, num)
        tmpdiag == NoDiagnostics
        pass == blocked_loop(num, size_factors, block, 1,
                             [g \in 1..ngroups |-> Zero], [g \in 1..ngroups |-> 0],
                             tmpdiag, options.ignore_invalid)
    IN  [ret |-> [g \in 1..ngroups |->
                     IF pass.group_num[g] # 0
                     THEN FDiv(pass.group_mean[g], FromCount(pass.group_num[g]))
                     ELSE pass.group_mean[g]],
         diag |-> IF options.ignore_invalid /\ ~diagnostics.null
                  THEN pass.diag ELSE diagnostics.at,
         divisions |-> {Division(180, FromCount(pass.group_num[g])) :
                           g \in {h \in 1..ngroups : pass.group_num[h] # 0}}]

compute_blocked_mean(num, size_factors, block, diagnostics, options) ==
    LET ngroups == total_groups(block, num)
        tmpdiag == NoDiagnostics
        pass == blocked_loop(num, size_factors, block, 1,
                             [g \in 1..ngroups |-> Zero], [g \in 1..ngroups |-> 0],
                             IF diagnostics.null THEN tmpdiag ELSE diagnostics.at,
                             options.ignore_invalid)
    IN  [ret |-> [g \in 1..ngroups |->
                     IF pass.group_num[g] # 0
                     THEN FDiv(pass.group_mean[g], FromCount(pass.group_num[g]))
                     ELSE pass.group_mean[g]],
         diag |-> IF options.ignore_invalid /\ ~diagnostics.null
                  THEN pass.diag ELSE diagnostics.at,
         divisions |-> {Division(180, FromCount(pass.group_num[g])) :
                           g \in {h \in 1..ngroups : pass.group_num[h] # 0}}]

\* --------------------------------------------------------- compute_blocked
\* faulty variant: if (m < min) without the found flag
RECURSIVE lowest_loop_no_found(_, _, _, _)
lowest_loop_no_found(group_mean, g, min, found) ==
    IF g > Len(group_mean) THEN min
    ELSE LET m == group_mean[g]
         IN  IF FTruthy(m) /\ FLess(m, min)
             THEN lowest_loop_no_found(group_mean, g + 1, m, TRUE)
             ELSE lowest_loop_no_found(group_mean, g + 1, min, found)

\* faulty variant: min < m, which keeps the largest mean
RECURSIVE lowest_loop_largest(_, _, _, _)
lowest_loop_largest(group_mean, g, min, found) ==
    IF g > Len(group_mean) THEN min
    ELSE LET m == group_mean[g]
         IN  IF FTruthy(m) /\ (~found \/ FLess(min, m))
             THEN lowest_loop_largest(group_mean, g + 1, m, TRUE)
             ELSE lowest_loop_largest(group_mean, g + 1, min, found)

\* for (auto m : group_mean) { if (m) { if (!found || m < min) { min = m; found = true; } } }
RECURSIVE lowest_loop(_, _, _, _)
lowest_loop(group_mean, g, min, found) ==
    IF g > Len(group_mean) THEN min
    ELSE LET m == group_mean[g]
         IN  IF FTruthy(m) /\ (~found \/ FLess(m, min))
             THEN lowest_loop(group_mean, g + 1, m, TRUE)
             ELSE lowest_loop(group_mean, g + 1, min, found)

\* faulty variant: PER_BLOCK tests if (div > 0) in place of if (div)
compute_blocked_positive_div(num, size_factors, block, diagnostics, options) ==
    LET gm == compute_blocked_mean(num, size_factors, block, diagnostics, options)
        group_mean == gm.ret
        min == lowest_loop(group_mean, 1, Zero, FALSE)
    IN  IF options.block_mode = "PER_BLOCK"
        THEN [ret |-> group_mean,
              size_factors |-> [i \in 1..num |->
                                   LET div == group_mean[block[i] + 1]
                                   IN  IF FLess(Zero, div) THEN FDiv(size_factors[i], div)
                                       ELSE size_factors[i]],
              diag |-> gm.diag,
              divisions |-> gm.divisions \cup
                  {Division(211, group_mean[block[i] + 1]) :
                      i \in {j \in 1..num : FLess(Zero, group_mean[block[j] + 1])}}]
        ELSE [ret |-> group_mean,
              size_factors |-> IF FLess(Zero, min)
                               THEN [i \in 1..num |-> FDiv(size_factors[i], min)]
                               ELSE size_factors,
              diag |-> gm.diag,
              divisions |-> gm.divisions \cup
                  (IF FLess(Zero, min) /\ num > 0 THEN {Division(231, min)} ELSE {})]

compute_blocked(num, size_factors, block, diagnostics, options) ==
    LET gm == compute_blocked_mean(num, size_factors, block, diagnostics, options)
        group_mean == gm.ret
        min == lowest_loop(group_mean, 1, Zero, FALSE)
    IN  IF options.block_mode = "PER_BLOCK"
        THEN [ret |-> group_mean,
              size_factors |-> [i \in 1..num |->
                                   LET div == group_mean[block[i] + 1]
                                   IN  IF FTruthy(div) THEN FDiv(size_factors[i], div)
                                       ELSE size_factors[i]],
              diag |-> gm.diag,
              divisions |-> gm.divisions \cup
                  {Division(211, group_mean[block[i] + 1]) :
                      i \in {j \in 1..num : FTruthy(group_mean[block[j] + 1])}}]
        ELSE [ret |-> group_mean,
              size_factors |-> IF FLess(Zero, min)
                               THEN [i \in 1..num |-> FDiv(size_factors[i], min)]
                               ELSE size_factors,
              diag |-> gm.diag,
              divisions |-> gm.divisions \cup
                  (IF FLess(Zero, min) /\ num > 0 THEN {Division(231, min)} ELSE {})]

\* ------------------------------------------------------------------- state
VARIABLES
    size_factors,   \* the caller's size factor array
    block,          \* the caller's block assignments, one per cell
    diagnostics,    \* the caller's Diagnostics record
    call,           \* the last call: function, arguments and the array passed in
    ret,            \* what the last call returned (a mean, or a vector of means)
    divisions,      \* the divisions the last call executed
    remaining       \* calls the caller has still to make

vars == <<size_factors, block, diagnostics, call, ret, divisions, remaining>>

\* the size factors a caller may pass in: negative, zero, positive, NaN, infinite
Values == {Fin(-3, 1), Zero, Fin(1, 1), Fin(3, 1), NaN, Inf(1)}

Arrays(S) == UNION {[1..n -> S] : n \in 0..MaxNum}

NoCall == [fn |-> "none", null |-> TRUE, options |-> [block_mode |-> "LOWEST", ignore_invalid |-> TRUE],
           size_factors |-> <<>>]

\* One call on arguments the caller has just set up: each function is checked
\* as a function of its arguments.
Init ==
    /\ size_factors \in Arrays(Values)
    /\ block \in [1..Len(size_factors) -> 0..MaxBlock]
    /\ diagnostics = NoDiagnostics
    /\ call = NoCall
    /\ ret = <<>>
    /\ divisions = {}
    /\ remaining = 1

Called(fn, null, options) ==
    [fn |-> fn, null |-> null, options |-> options, size_factors |-> size_factors]

Call_compute_mean ==
    /\ remaining > 0
    /\ \E null \in BOOLEAN, options \in UnblockedOptions :
          \E r \in {compute_mean(Len(size_factors), size_factors, Ptr(null, diagnostics), options)} :
              /\ ret' = r.ret
              /\ diagnostics' = r.diag
              /\ divisions' = r.divisions
              /\ call' = Called("compute_mean", null, options)
    /\ remaining' = remaining - 1
    /\ UNCHANGED <<size_factors, block>>

Call_compute ==
    /\ remaining > 0
    /\ \E null \in BOOLEAN, options \in UnblockedOptions :
          \E r \in {compute(Len(size_factors), size_factors, Ptr(null, diagnostics), options)} :
              /\ ret' = r.ret
              /\ size_factors' = r.size_factors
              /\ diagnostics' = r.diag
              /\ divisions' = r.divisions
              /\ call' = Called("compute", null, options)
    /\ remaining' = remaining - 1
    /\ UNCHANGED block

Call_compute_blocked_mean ==
    /\ remaining > 0
    /\ \E null \in BOOLEAN, options \in UnblockedOptions :
          \E r \in {compute_blocked_mean(Len(size_factors), size_factors, block,
                                        Ptr(null, diagnostics), options)} :
              /\ ret' = r.ret
              /\ diagnostics' = r.diag
              /\ divisions' = r.divisions
              /\ call' = Called("compute_blocked_mean", null, options)
    /\ remaining' = remaining - 1
    /\ UNCHANGED <<size_factors, block>>

Call_compute_blocked ==
    /\ remaining > 0
    /\ \E null \in BOOLEAN, options \in Options :
          \E r \in {compute_blocked(Len(size_factors), size_factors, block,
                                   Ptr(null, diagnostics), options)} :
              /\ ret' = r.ret
              /\ size_factors' = r.size_factors
              /\ diagnostics' = r.diag
              /\ divisions' = r.divisions
              /\ call' = Called("compute_blocked", null, options)
    /\ remaining' = remaining - 1
    /\ UNCHANGED block

Next ==
    \/ Call_compute_mean
    \/ Call_compute
    \/ Call_compute_blocked_mean
    \/ Call_compute_blocked

Spec == Init /\ [][Next]_vars

\* A sequence of calls, in place on one array, sharing a diagnostics record the
\* caller has used before: it may already carry flags from earlier arrays (the
\* code never resets it).
InitShared ==
    /\ size_factors \in Arrays(Values)
    /\ block \in [1..Len(size_factors) -> 0..MaxBlock]
    /\ diagnostics \in [has_negative : BOOLEAN, has_zero : BOOLEAN,
                         has_nan : BOOLEAN, has_infinite : BOOLEAN]
    /\ call = NoCall
    /\ ret = <<>>
    /\ divisions = {}
    /\ remaining = MaxCalls

SpecShared == InitShared /\ [][Next]_vars


\* ------------------------------------------------- vocabulary of the claims
\* a valid size factor: positive, finite, not NaN
IsValid(v) == v.k = "fin" /\ v.n > 0

\* exact sum of sf over the positions in I
RECURSIVE SumOver(_, _)
SumOver(sf, I) ==
    IF I = {} THEN Zero
    ELSE LET i == CHOOSE j \in I : TRUE
         IN  FAdd(sf[i], SumOver(sf, I \ {i}))

\* sum / count over the positions in I, 0 for none
MeanOver(sf, I) ==
    IF I = {} THEN Zero ELSE FDiv(SumOver(sf, I), Fin(Cardinality(I), 1))

\* the positions of sf that contribute to a mean
Contributing(sf, ignore_invalid) ==
    {i \in 1..Len(sf) : ~ignore_invalid \/ IsValid(sf[i])}

\* the positions labelled b, in increasing order
Positions(blk, b) == SelectSeq([i \in 1..Len(blk) |-> i], LAMBDA i : blk[i] = b)

\* the invalid-value kinds present in sf
KindsIn(sf) ==
    [has_negative |-> \E i \in 1..Len(sf) : FLess(sf[i], Zero),
     has_zero     |-> \E i \in 1..Len(sf) : sf[i] = Zero,
     has_nan      |-> \E i \in 1..Len(sf) : sf[i].k = "nan",
     has_infinite |-> \E i \in 1..Len(sf) : sf[i].k = "inf" /\ sf[i].n > 0]

Flags == {"has_negative", "has_zero", "has_nan", "has_infinite"}
Union(d1, d2) == [f \in Flags |-> d1[f] \/ d2[f]]

Input == call.size_factors
Num == Len(call.size_factors)
NGroups == IF Num = 0 THEN 0 ELSE 1 + CHOOSE m \in 0..MaxBlock :
               (\E i \in 1..Num : block[i] = m) /\ (\A i \in 1..Num : block[i] <= m)
Scaled(sf, by) == [i \in 1..Len(sf) |-> FDiv(sf[i], by)]
PositiveMeans == {ret[g] : g \in {h \in 1..Len(ret) : FLess(Zero, ret[h])}}
Lowest(S) == CHOOSE m \in S : \A o \in S : ~FLess(o, m)


\* ------------------------------------------------------------------ claims

\* C1: compute_blocked in LOWEST mode divides every element by the minimum of
\* the strictly positive block means when some block mean is positive, whatever
\* the other blocks' means are (negative, NaN), and leaves the array unmodified
\* when no block mean is positive.
C1_LowestDividesByMinPositive ==
    (call.fn = "compute_blocked" /\ call.options.block_mode = "LOWEST") =>
        IF PositiveMeans # {}
        THEN size_factors = Scaled(Input, Lowest(PositiveMeans))
        ELSE size_factors = Input

\* C2: compute_blocked in PER_BLOCK mode gives every block b the output and the
\* mean that compute() gives on the sub-array of b's values alone; an element
\* whose block mean is 0 is left unmodified.
C2_PerBlockIsComputeOnSubset ==
    (call.fn = "compute_blocked" /\ call.options.block_mode = "PER_BLOCK") =>
        /\ Len(ret) = NGroups
        /\ \A b \in 0..(NGroups - 1) :
              LET pos == Positions(block, b)
                  sub == [j \in 1..Len(pos) |-> Input[pos[j]]]
                  alone == compute(Len(sub), sub, Ptr(TRUE, NoDiagnostics), call.options)
              IN  /\ ret[b + 1] = alone.ret
                  /\ \A j \in 1..Len(pos) : size_factors[pos[j]] = alone.size_factors[j]
        /\ \A i \in 1..Num : ret[block[i] + 1] = Zero => size_factors[i] = Input[i]

C2_Witness ==
    /\ call.fn = "compute_blocked" /\ call.options.block_mode = "PER_BLOCK"
    /\ Len(ret) = 2
    /\ ret[1] # ret[2] /\ ret[1] # Zero /\ ret[2] # Zero
    /\ \A i \in 1..Num : size_factors[i] # Input[i]

\* C3: compute() returns the mean compute_mean gives on the input; a non-zero
\* mean divides every element, valid or not; a zero mean leaves every element
\* unchanged; the mean is returned either way.
C3_ComputeDividesByMean ==
    call.fn = "compute" =>
        LET mean == compute_mean(Num, Input, Ptr(TRUE, NoDiagnostics), call.options).ret
        IN  /\ ret = mean
            /\ mean # Zero => size_factors = Scaled(Input, mean)
            /\ mean = Zero => size_factors = Input

C3_Witness ==
    /\ call.fn = "compute" /\ call.options.ignore_invalid
    /\ ret # Zero /\ ret # Fin(1, 1)
    /\ \E i \in 1..Num : ~IsValid(Input[i]) /\ size_factors[i] # Input[i]

\* C4: for an array of num >= 1 positive finite values, after compute() the
\* output sums to num (its mean is 1) and the value returned is the mean of
\* the input, for both settings of ignore_invalid.
C4_PositiveArrayCentredAtOne ==
    (call.fn = "compute" /\ Num >= 1 /\ \A i \in 1..Num : IsValid(Input[i])) =>
        /\ SumOver(size_factors, 1..Num) = Fin(Num, 1)
        /\ ret = FDiv(SumOver(Input, 1..Num), Fin(Num, 1))

C4_Witness ==
    /\ call.fn = "compute" /\ Num >= 2 /\ \A i \in 1..Num : IsValid(Input[i])
    /\ \E i, j \in 1..Num : Input[i] # Input[j]
    /\ ret # Fin(1, 1)

\* C5: compute_mean returns sum / count over the valid values when
\* ignore_invalid is set and over all num values otherwise, and 0 when that
\* count is zero.
C5_MeanOfContributing ==
    call.fn = "compute_mean" =>
        ret = MeanOver(Input, Contributing(Input, call.options.ignore_invalid))

C5_Witness ==
    /\ call.fn = "compute_mean" /\ call.options.ignore_invalid
    /\ \E i, j \in 1..Num : ~IsValid(Input[i]) /\ IsValid(Input[j]) /\ ret = Input[j]

\* C6: compute_blocked_mean returns one entry per block 0..N-1 (N the largest
\* label + 1): sum / count of the block's contributing values, 0 for a block
\* with none; the input array is not modified.
C6_BlockedMeanOfContributing ==
    call.fn = "compute_blocked_mean" =>
        /\ Len(ret) = NGroups
        /\ \A g \in 0..(NGroups - 1) :
              ret[g + 1] = MeanOver(Input, {i \in Contributing(Input, call.options.ignore_invalid) :
                                               block[i] = g})
        /\ size_factors = Input

C6_Witness ==
    /\ call.fn = "compute_blocked_mean" /\ call.options.ignore_invalid
    /\ Len(ret) = 2 /\ ret[1] = Zero /\ ret[2] # Zero /\ ret[2] # Fin(1, 1)
    /\ \E i \in 1..Num : block[i] = 1 /\ ~IsValid(Input[i])

\* C7: every division a call performs has a non-zero divisor.
C7_NoDivisionByZero ==
    \A d \in divisions : d.by # Zero

C7_Witness ==
    /\ call.fn = "compute_blocked" /\ call.options.block_mode = "PER_BLOCK"
    /\ \E g \in 1..Len(ret) : ret[g] = Zero
    /\ \E d \in divisions : d.line = 211

\* C8: over calls that share the caller's diagnostics record, no call clears a
\* flag that is set; a call with ignore_invalid = true adds exactly the flags of
\* the invalid kinds present in the array it is given; a call with
\* ignore_invalid = false leaves the record unchanged.
C8_DiagnosticsAccumulate ==
    [][ /\ \A f \in Flags : diagnostics[f] => diagnostics'[f]
        /\ (call'.options.ignore_invalid /\ ~call'.null) =>
               diagnostics' = Union(diagnostics, KindsIn(call'.size_factors))
        /\ ~call'.options.ignore_invalid => diagnostics' = diagnostics ]_vars

C8_Witness ==
    /\ remaining = 0 /\ call.options.ignore_invalid /\ ~call.null
    /\ diagnostics # KindsIn(Input)
    /\ KindsIn(Input) # NoDiagnostics
    /\ \E f \in Flags : diagnostics[f] /\ ~KindsIn(Input)[f]
    /\ \E f \in Flags : ~diagnostics[f]

\* what compute() does on the array the last call was given
ComputeOnInput == compute(Num, Input, Ptr(TRUE, NoDiagnostics), call.options)
SingleBlock == Num >= 1 /\ \A i \in 1..Num : block[i] = 0

\* C9 as stated: with every element in block 0, compute_blocked gives the output
\* array and the mean of compute() on the same input, in both block modes and
\* for both settings of ignore_invalid.
C9_SingleBlockIsCompute ==
    (call.fn = "compute_blocked" /\ SingleBlock) =>
        /\ ret = <<ComputeOnInput.ret>>
        /\ size_factors = ComputeOnInput.size_factors

\* C9 as amended: with every element in block 0, compute_blocked returns the
\* mean of compute(); its output array is that of compute() in PER_BLOCK mode,
\* and in LOWEST mode when that mean is zero or strictly positive; when that
\* mean is negative or NaN, LOWEST leaves the array unmodified.
C9_SingleBlockIsComputeUnlessLowestNonPositive ==
    (call.fn = "compute_blocked" /\ SingleBlock) =>
        /\ ret = <<ComputeOnInput.ret>>
        /\ IF call.options.block_mode = "PER_BLOCK"
              \/ ret[1] = Zero \/ FLess(Zero, ret[1])
           THEN size_factors = ComputeOnInput.size_factors
           ELSE size_factors = Input

C9_Witness ==
    /\ call.fn = "compute_blocked" /\ SingleBlock /\ Num >= 2
    /\ call.options.block_mode = "LOWEST"
    /\ FLess(Zero, ret[1]) /\ ret[1] # Fin(1, 1)
    /\ size_factors # Input

\* C10: with ignore_invalid = true every mean returned is 0 or strictly
\* positive, and 0 exactly when no valid value contributed to it; in LOWEST
\* mode the array is rescaled exactly when a valid value exists, by a divisor
\* that is at most every non-zero block mean.
C10_FilteredMeansNonNegative ==
    (call.fn # "none" /\ call.options.ignore_invalid) =>
        /\ call.fn \in {"compute_mean", "compute"} =>
              /\ ret = Zero \/ (ret.k = "fin" /\ ret.n > 0)
              /\ ret = Zero <=> ~\E i \in 1..Num : IsValid(Input[i])
        /\ call.fn \in {"compute_blocked_mean", "compute_blocked"} =>
              \A g \in 1..Len(ret) :
                  /\ ret[g] = Zero \/ (ret[g].k = "fin" /\ ret[g].n > 0)
                  /\ ret[g] = Zero <=> ~\E i \in 1..Num : block[i] = g - 1 /\ IsValid(Input[i])
        /\ (call.fn = "compute_blocked" /\ call.options.block_mode = "LOWEST") =>
              /\ (\E d \in divisions : d.line = 231) <=> (\E i \in 1..Num : IsValid(Input[i]))
              /\ \A d \in divisions : d.line = 231 =>
                    /\ size_factors = Scaled(Input, d.by)
                    /\ \A g \in 1..Len(ret) : ret[g] # Zero => ~FLess(ret[g], d.by)

C10_Witness ==
    /\ call.fn = "compute_blocked" /\ call.options.block_mode = "LOWEST"
    /\ call.options.ignore_invalid
    /\ Len(ret) = 3 /\ ret[1] # Zero /\ ret[2] = Zero /\ FLess(ret[3], ret[1])
    /\ \E d \in divisions : d.line = 231 /\ d.by = ret[3]

=============================================================================
